---- MODULE Spec2Model ----
(***************************************************************************)
(* Interface-name alias translation of the SONiC "show" command            *)
(* (src/main.py): the registry InterfaceAliasConverter, the line           *)
(* translator print_output_in_alias_mode, the rule chain and the pump of   *)
(* run_command_in_alias_mode, and run_command with its callers.            *)
(*                                                                         *)
(* Text is modelled by TLA+ strings, which are sequences of characters:    *)
(* a line read from the producer carries its "\n" terminator, exactly as   *)
(* readline() returns it.                                                  *)
(***************************************************************************)
EXTENDS Integers, Sequences, FiniteSets, TLC

(***************************************************************************)
(* Python 2 str methods and the re calls the translator uses.              *)
(***************************************************************************)

\* one character of a string
Char(s, i) == SubSeq(s, i, i)

\* characters str.split() and str.lstrip() treat as whitespace
Whitespace == {" ", "\t", "\n", "\r"}

IsSpace(c) == c \in Whitespace

\* characters the regular expression class \w matches (ASCII, Python 2 str)
WordChars ==
    {"a","b","c","d","e","f","g","h","i","j","k","l","m",
     "n","o","p","q","r","s","t","u","v","w","x","y","z",
     "A","B","C","D","E","F","G","H","I","J","K","L","M",
     "N","O","P","Q","R","S","T","U","V","W","X","Y","Z",
     "0","1","2","3","4","5","6","7","8","9","_"}

Digits == {"0","1","2","3","4","5","6","7","8","9"}

\* s.startswith(p)
StartsWith(s, p) == Len(p) <= Len(s) /\ SubSeq(s, 1, Len(p)) = p

\* s.find(sub, from): index of the first occurrence at or after from, 0 if none
Find(s, sub, from) ==
    LET hits == {i \in from..(Len(s) - Len(sub) + 1) :
                     SubSeq(s, i, i + Len(sub) - 1) = sub}
    IN  IF hits = {} THEN 0
        ELSE CHOOSE i \in hits : \A j \in hits : i <= j

\* sub in s
Contains(s, sub) == Find(s, sub, 1) # 0

RECURSIVE LStripFrom(_, _)
LStripFrom(s, i) ==
    IF i > Len(s) THEN ""
    ELSE IF IsSpace(Char(s, i)) THEN LStripFrom(s, i + 1)
    ELSE SubSeq(s, i, Len(s))

\* s.lstrip()
LStrip(s) == LStripFrom(s, 1)

RECURSIVE RStripNL(_)
\* s.rstrip('\n')
RStripNL(s) ==
    IF Len(s) > 0 /\ Char(s, Len(s)) = "\n"
    THEN RStripNL(SubSeq(s, 1, Len(s) - 1))
    ELSE s

RECURSIVE TokenEnd(_, _)
\* last index of the run of non-whitespace characters starting at i
TokenEnd(s, i) ==
    IF i < Len(s) /\ ~IsSpace(Char(s, i + 1)) THEN TokenEnd(s, i + 1) ELSE i

RECURSIVE SplitFrom(_, _)
SplitFrom(s, i) ==
    IF i > Len(s) THEN <<>>
    ELSE IF IsSpace(Char(s, i)) THEN SplitFrom(s, i + 1)
    ELSE LET e == TokenEnd(s, i)
         IN  <<SubSeq(s, i, e)>> \o SplitFrom(s, e + 1)

\* s.split(): the whitespace-separated tokens
Split(s) == SplitFrom(s, 1)

RECURSIVE ReplaceFrom(_, _, _, _, _)
ReplaceFrom(s, old, new, from, count) ==
    LET i == Find(s, old, from)
    IN  IF i = 0 \/ count = 0 THEN SubSeq(s, from, Len(s))
        ELSE SubSeq(s, from, i - 1) \o new
             \o ReplaceFrom(s, old, new, i + Len(old), count - 1)

\* s.replace(old, new): every non-overlapping occurrence, left to right
Replace(s, old, new) == ReplaceFrom(s, old, new, 1, -1)

\* s.replace(old, new) where the count of 1 is forgotten
ReplaceFirst_every(s, old, new) == ReplaceFrom(s, old, new, 1, -1)

\* s.replace(old, new, 1): the first occurrence only
ReplaceFirst(s, old, new) == ReplaceFrom(s, old, new, 1, 1)

RECURSIVE Fill(_, _)
Fill(n, c) == IF n <= 0 THEN "" ELSE c \o Fill(n - 1, c)

\* s.rjust(width, fillchar)
RJust(s, width, fillchar) ==
    IF Len(s) >= width THEN s ELSE Fill(width - Len(s), fillchar) \o s

RECURSIVE Join(_, _)
\* sep.join(words)
Join(sep, words) ==
    IF words = <<>> THEN ""
    ELSE IF Len(words) = 1 THEN words[1]
    ELSE words[1] \o sep \o Join(sep, Tail(words))

\* \w at position i of s; the positions outside the string are not \w
IsWordAt(s, i) == i >= 1 /\ i <= Len(s) /\ Char(s, i) \in WordChars

\* the assertion \b between position i and position i + 1
WordBoundary(s, i) == IsWordAt(s, i) # IsWordAt(s, i + 1)

\* a match of r"\bname\b" at position i
WordMatchAt(s, name, i) ==
    /\ i >= 1
    /\ i + Len(name) - 1 <= Len(s)
    /\ SubSeq(s, i, i + Len(name) - 1) = name
    /\ WordBoundary(s, i - 1)
    /\ WordBoundary(s, i + Len(name) - 1)

RECURSIVE FindAllFrom(_, _, _)
FindAllFrom(s, name, from) ==
    LET hits == {i \in from..Len(s) : WordMatchAt(s, name, i)}
    IN  IF hits = {} THEN <<>>
        ELSE LET i == CHOOSE h \in hits : \A j \in hits : h <= j
             IN  <<name>> \o FindAllFrom(s, name, i + Len(name))

\* re.findall(re.compile(r"\b{}\b".format(name)), s) for a name of \w characters
FindAll(s, name) == FindAllFrom(s, name, 1)

Max(a, b) == IF a >= b THEN a ELSE b

(***************************************************************************)
(* Optional values: None is the empty tuple, a present value v is <<v>>.   *)
(***************************************************************************)
None == <<>>

Some(v) == <<v>>

\* "{}".format(v)
Format(v) == IF v = None THEN "None" ELSE v[1]

(***************************************************************************)
(* InterfaceAliasConverter.  port_dict maps a port name to its PORT-table  *)
(* record, which may or may not have the field alias; keys is the order in *)
(* which port_dict.keys() yields the names (a Python 2 dict: any order,    *)
(* fixed for one dict).                                                    *)
(***************************************************************************)

\* the object before the module-level construction has run
NoConverter == [port_dict |-> <<>>, keys |-> <<>>, alias_max_length |-> 0]

RECURSIVE alias_max_length_loop(_, _, _, _)
\* the loop of __init__: a port without alias raises KeyError, which ends the loop
alias_max_length_loop(port_dict, keys, i, alias_max_length) ==
    IF i > Len(keys) THEN alias_max_length
    ELSE IF "alias" \notin DOMAIN port_dict[keys[i]] THEN alias_max_length
    ELSE alias_max_length_loop(port_dict, keys, i + 1,
             IF alias_max_length < Len(port_dict[keys[i]].alias)
             THEN Len(port_dict[keys[i]].alias) ELSE alias_max_length)

\* __init__ without the test of line 60
InterfaceAliasConverter_init_unchecked(table, keys) ==
    [kind |-> "ok", echo |-> <<>>,
     self |-> [port_dict |-> table, keys |-> keys,
               alias_max_length |-> alias_max_length_loop(table, keys, 1, 0)]]

\* InterfaceAliasConverter.__init__ on the PORT table the config DB returns
InterfaceAliasConverter_init(table, keys) ==
    IF DOMAIN table = {}
    THEN [kind |-> "Abort", echo |-> <<"port_dict is None!">>, self |-> NoConverter]
    ELSE [kind |-> "ok", echo |-> <<>>,
          self |-> [port_dict |-> table, keys |-> keys,
                    alias_max_length |-> alias_max_length_loop(table, keys, 1, 0)]]

\* click.echo("Invalid interface {}".format(x)); raise click.Abort()
InvalidInterface(x) ==
    [kind |-> "Abort", value |-> "", echo |-> <<"Invalid interface " \o Format(x)>>]

RECURSIVE name_to_alias_loop(_, _, _)
name_to_alias_loop(self, interface_name, i) ==
    IF i > Len(self.keys) THEN InvalidInterface(interface_name)
    ELSE IF interface_name[1] = self.keys[i]
    THEN IF "alias" \in DOMAIN self.port_dict[self.keys[i]]
         THEN [kind |-> "ok", value |-> self.port_dict[self.keys[i]].alias, echo |-> <<>>]
         ELSE [kind |-> "KeyError", value |-> "", echo |-> <<>>]
    ELSE name_to_alias_loop(self, interface_name, i + 1)

\* InterfaceAliasConverter.name_to_alias
name_to_alias(self, interface_name) ==
    IF interface_name # None THEN name_to_alias_loop(self, interface_name, 1)
    ELSE InvalidInterface(interface_name)

RECURSIVE alias_to_name_loop(_, _, _)
alias_to_name_loop(self, interface_alias, i) ==
    IF i > Len(self.keys) THEN InvalidInterface(interface_alias)
    ELSE IF "alias" \notin DOMAIN self.port_dict[self.keys[i]]
    THEN [kind |-> "KeyError", value |-> "", echo |-> <<>>]
    ELSE IF interface_alias[1] = self.port_dict[self.keys[i]].alias
    THEN [kind |-> "ok", value |-> self.keys[i], echo |-> <<>>]
    ELSE alias_to_name_loop(self, interface_alias, i + 1)

\* InterfaceAliasConverter.alias_to_name
alias_to_name(self, interface_alias) ==
    IF interface_alias # None THEN alias_to_name_loop(self, interface_alias, 1)
    ELSE InvalidInterface(interface_alias)

(***************************************************************************)
(* The line translator.  A result records how the call ended (kind: "ok"   *)
(* or the exception that left it), the lines it passed to click.echo, and  *)
(* the locals of the substitution: adjusted is output as it stands before  *)
(* line 236, interface_name the token looked up, alias_name the text       *)
(* inserted for it ("" when nothing is substituted).                       *)
(***************************************************************************)
Raised(exception) ==
    [kind |-> exception, echo |-> <<>>, adjusted |-> "",
     interface_name |-> "", alias_name |-> ""]

\* the padding with ljust in place of rjust
PadAlias_ljust(alias_name, alias_max_length) ==
    IF Len(alias_name) < alias_max_length
    THEN alias_name \o Fill(alias_max_length - Len(alias_name), " ")
    ELSE alias_name

\* alias_name.rjust(alias_max_length) when the alias is shorter than that
PadAlias(alias_name, alias_max_length) ==
    IF Len(alias_name) < alias_max_length
    THEN RJust(alias_name, alias_max_length, " ")
    ELSE alias_name

\* the divider rewrite with a dash run of exactly alias_max_length dashes
DividerRewrite_exact(self, output, index) ==
    Join("  ", [Split(output) EXCEPT ![index + 1] = Fill(self.alias_max_length, "-")])

\* lines 215-222: the divider rewrite, word[index] padded with dashes
DividerRewrite(self, output, index) ==
    LET word == Split(output)
    IN  Join("  ", [word EXCEPT ![index + 1] =
                        RJust(@, self.alias_max_length, "-")])

RECURSIVE AliasLookup(_, _, _, _)
\* lines 229-231: the loop over the port names; natsorted changes only the
\* order of the visits, and at most one key equals interface_name
AliasLookup(self, interface_name, i, alias_name) ==
    IF i > Len(self.keys) THEN [kind |-> "ok", alias_name |-> alias_name]
    ELSE IF interface_name = self.keys[i]
    THEN IF "alias" \in DOMAIN self.port_dict[self.keys[i]]
         THEN AliasLookup(self, interface_name, i + 1,
                          self.port_dict[self.keys[i]].alias)
         ELSE [kind |-> "KeyError", alias_name |-> ""]
    ELSE AliasLookup(self, interface_name, i + 1, alias_name)

\* lines 224-238, on the output the divider rewrite left
SubstituteToken(self, output, index) ==
    LET word == Split(output)
    IN  IF word # <<>> /\ Len(word) < index + 1 THEN Raised("IndexError")
        ELSE LET interface_name ==
                     IF word # <<>> THEN Replace(word[index + 1], ":", "") ELSE ""
                 found == AliasLookup(self, interface_name, 1, "")
             IN  IF found.kind # "ok" THEN Raised(found.kind)
                 ELSE IF found.alias_name # ""
                 THEN LET alias_name ==
                              PadAlias(found.alias_name, self.alias_max_length)
                      IN  [kind |-> "ok",
                           echo |-> <<RStripNL(ReplaceFirst(output, interface_name,
                                                            alias_name))>>,
                           adjusted |-> output,
                           interface_name |-> interface_name,
                           alias_name |-> alias_name]
                 ELSE [kind |-> "ok", echo |-> <<RStripNL(output)>>,
                       adjusted |-> output,
                       interface_name |-> interface_name, alias_name |-> ""]

\* print_output_in_alias_mode without the replace of line 236
print_output_in_alias_mode_unreplaced(self, output, index) ==
    LET r == IF StartsWith(output, "---")
             THEN IF Len(Split(output)) < index + 1 THEN Raised("IndexError")
                  ELSE SubstituteToken(self, DividerRewrite(self, output, index), index)
             ELSE SubstituteToken(self, output, index)
    IN  IF r.kind = "ok" THEN [r EXCEPT !.echo = <<RStripNL(r.adjusted)>>] ELSE r

\* print_output_in_alias_mode(output, index)
print_output_in_alias_mode(self, output, index) ==
    IF StartsWith(output, "---")
    THEN IF Len(Split(output)) < index + 1 THEN Raised("IndexError")
         ELSE SubstituteToken(self, DividerRewrite(self, output, index), index)
    ELSE SubstituteToken(self, output, index)

\* output.replace(label, label.rjust(alias_max_length)) when output starts with label
PadHeader(self, output, label) ==
    IF StartsWith(output, label)
    THEN Replace(output, label, RJust(label, self.alias_max_length, " "))
    ELSE output

\* the line is never excluded from the scan
Excluded_never(raw_output) == FALSE

\* line 341: the lines the scan does not rewrite
Excluded(raw_output) == StartsWith(raw_output, "    PortID:")

RECURSIVE ScanLoop(_, _, _)
\* lines 336-346: the loop of the whole-line scan over port_dict.keys(), then
\* the echo of raw_output
ScanLoop(self, raw_output, i) ==
    IF i > Len(self.keys)
    THEN [kind |-> "ok", echo |-> <<RStripNL(raw_output)>>, adjusted |-> "",
          interface_name |-> "", alias_name |-> ""]
    ELSE LET result == FindAll(raw_output, self.keys[i])
         IN  IF result # <<>> /\ ~Excluded(raw_output)
             THEN LET interface_name == Join("", result)
                      alias == name_to_alias(self, Some(interface_name))
                  IN  IF alias.kind # "ok"
                      THEN [kind |-> alias.kind, echo |-> alias.echo,
                            adjusted |-> "", interface_name |-> interface_name,
                            alias_name |-> ""]
                      ELSE ScanLoop(self,
                                    Replace(raw_output, interface_name, alias.value),
                                    i + 1)
             ELSE ScanLoop(self, raw_output, i + 1)

\* the else branch as a token rule of index 1 on the raw line
ScanLine_index1(self, raw_output) ==
    IF Excluded(raw_output) \/ Len(Split(raw_output)) < 2
    THEN [kind |-> "ok", echo |-> <<RStripNL(raw_output)>>, adjusted |-> "",
          interface_name |-> "", alias_name |-> ""]
    ELSE SubstituteToken(self, raw_output, 1)

\* the scan run on output, the stripped line, in place of raw_output
ScanLine_stripped(self, raw_output) == ScanLoop(self, LStrip(raw_output), 1)

\* lines 334-346: the else branch, the whole-line scan of raw_output
ScanLine(self, raw_output) == ScanLoop(self, raw_output, 1)

\* the names of the branches of lines 258-346
TokenRules ==
    {"portstat", "intfstat", "pfcstat", "sfputil_eeprom", "sfputil",
     "lldpshow", "queuestat", "fdbshow", "nbrshow"}

\* the branch a command takes when the test of line 286 is missing
RuleOf_noeeprom(command) ==
    IF StartsWith(command, "portstat") THEN "portstat"
    ELSE IF StartsWith(command, "intfstat") THEN "intfstat"
    ELSE IF command = "pfcstat" THEN "pfcstat"
    ELSE IF StartsWith(command, "sudo sfputil show") THEN "sfputil"
    ELSE IF command = "sudo lldpshow" THEN "lldpshow"
    ELSE IF StartsWith(command, "queuestat") THEN "queuestat"
    ELSE IF command = "fdbshow" THEN "fdbshow"
    ELSE IF StartsWith(command, "nbrshow") THEN "nbrshow"
    ELSE "scan"

\* the branch a command takes when every test is a test of its prefix
RuleOf_prefix(command) ==
    IF StartsWith(command, "portstat") THEN "portstat"
    ELSE IF StartsWith(command, "intfstat") THEN "intfstat"
    ELSE IF StartsWith(command, "pfcstat") THEN "pfcstat"
    ELSE IF StartsWith(command, "sudo sfputil show eeprom") THEN "sfputil_eeprom"
    ELSE IF StartsWith(command, "sudo sfputil show") THEN "sfputil"
    ELSE IF StartsWith(command, "sudo lldpshow") THEN "lldpshow"
    ELSE IF StartsWith(command, "queuestat") THEN "queuestat"
    ELSE IF StartsWith(command, "fdbshow") THEN "fdbshow"
    ELSE IF StartsWith(command, "nbrshow") THEN "nbrshow"
    ELSE "scan"

\* lines 258-334: the branch a command takes, the first whose test holds
RuleOf(command) ==
    IF StartsWith(command, "portstat") THEN "portstat"
    ELSE IF StartsWith(command, "intfstat") THEN "intfstat"
    ELSE IF command = "pfcstat" THEN "pfcstat"
    ELSE IF StartsWith(command, "sudo sfputil show eeprom") THEN "sfputil_eeprom"
    ELSE IF StartsWith(command, "sudo sfputil show") THEN "sfputil"
    ELSE IF command = "sudo lldpshow" THEN "lldpshow"
    ELSE IF StartsWith(command, "queuestat") THEN "queuestat"
    ELSE IF command = "fdbshow" THEN "fdbshow"
    ELSE IF StartsWith(command, "nbrshow") THEN "nbrshow"
    ELSE "scan"

\* the index each branch passes to print_output_in_alias_mode
IndexOf(rule) ==
    IF rule = "fdbshow" THEN 3 ELSE IF rule = "nbrshow" THEN 2 ELSE 0

\* lines 320-325: the adjustments of the fdbshow branch; "" has no output[0]
AdjustFdbshow(output) ==
    IF StartsWith(output, "No.")
    THEN [kind |-> "ok", output |-> Replace("  " \o output, "Type", "      Type")]
    ELSE IF output = "" THEN [kind |-> "IndexError", output |-> output]
    ELSE IF Char(output, 1) \in Digits
    THEN [kind |-> "ok", output |-> "    " \o output]
    ELSE [kind |-> "ok", output |-> output]

\* lines 254-346: what the branch named rule does with one non-empty line
ApplyRule(self, rule, raw_output) ==
    LET output == LStrip(raw_output)
    IN  CASE rule \in {"portstat", "intfstat"} ->
               print_output_in_alias_mode(self, PadHeader(self, output, "IFACE"), 0)
          [] rule = "pfcstat" ->
               print_output_in_alias_mode(self,
                   IF StartsWith(output, "Port Tx")
                   THEN PadHeader(self, output, "Port Tx")
                   ELSE PadHeader(self, output, "Port Rx"), 0)
          [] rule = "sfputil_eeprom" ->
               print_output_in_alias_mode(self, raw_output, 0)
          [] rule \in {"sfputil", "queuestat"} ->
               print_output_in_alias_mode(self, PadHeader(self, output, "Port"), 0)
          [] rule = "lldpshow" ->
               print_output_in_alias_mode(self, PadHeader(self, output, "LocalPort"), 0)
          [] rule = "fdbshow" ->
               LET adjust == AdjustFdbshow(output)
               IN  IF adjust.kind # "ok" THEN Raised(adjust.kind)
                   ELSE print_output_in_alias_mode(self, adjust.output, 3)
          [] rule = "nbrshow" ->
               print_output_in_alias_mode(self,
                   IF Contains(output, "Vlan")
                   THEN Replace(output, "Vlan", "  Vlan") ELSE output, 2)
          [] OTHER -> ScanLine(self, raw_output)

\* lines 253-346: the body of the pump's loop for one non-empty line
TranslateLine(self, command, raw_output) ==
    ApplyRule(self, RuleOf(command), raw_output)

(***************************************************************************)
(* The invocation: the module-level statements, one click subcommand, and  *)
(* run_command with the producer it launches.                              *)
(***************************************************************************)
VARIABLES
    pc,                     \* the statement the invocation has reached
    environ,                \* SONIC_CLI_IFACE_MODE: None or Some(value)
    config_db,              \* the PORT table of the backing store and its key order
    iface_alias_converter,  \* the global InterfaceAliasConverter instance
    handler,                \* the click subcommand the operator invoked
    interfacename,          \* its interface argument: None or Some(text)
    command,                \* the command line handed to run_command
    process,                \* the producer: subprocess.Popen and its stdout pipe
    output,                 \* the value the last readline() returned
    lines_read,             \* every non-empty line readline() has returned
    stdout,                 \* every line click.echo has written
    exit_status,            \* None while running, Some(status) once terminated
    exception,              \* the exception that ended the invocation, "" if none
    conv_log                \* the strict conversions applied, with their results

vars ==
    <<pc, environ, config_db, iface_alias_converter, handler, interfacename,
      command, process, output, lines_read, stdout, exit_status, exception,
      conv_log>>

\* the most lines a producer writes
MaxLines == 2

\* PORT-table records
WithAlias(a) == [alias |-> a, speed |-> "100000"]

NoAlias == [speed |-> "100000"]

\* the PORT tables the backing store may hold; aliases are pairwise distinct
PortTables ==
    { <<>>,
      [n \in {"Ethernet0"} |-> WithAlias("etp1")],
      [n \in {"Ethernet0", "Ethernet4"} |->
          IF n = "Ethernet0" THEN WithAlias("etp1") ELSE WithAlias("fortyGigE1/2")],
      [n \in {"Ethernet1", "Ethernet10"} |->
          IF n = "Ethernet1" THEN WithAlias("etp1") ELSE WithAlias("etp10")],
      [n \in {"Ethernet0", "Ethernet4"} |->
          IF n = "Ethernet0" THEN NoAlias ELSE WithAlias("etp2")],
      [n \in {"Ethernet0", "Ethernet4"} |->
          IF n = "Ethernet0" THEN WithAlias("Ethernet4") ELSE WithAlias("etp2")],
      [n \in {"Ethernet0"} |-> WithAlias("")] }

\* the orders in which a dict with the keys S may yield them
KeyOrders(S) ==
    {k \in [1..Cardinality(S) -> S] : \A i, j \in 1..Cardinality(S) : k[i] = k[j] => i = j}

ConfigDBs ==
    UNION {{[table |-> t, keys |-> k] : k \in KeyOrders(DOMAIN t)} : t \in PortTables}

Environs == {None, Some("alias"), Some("default"), Some("Alias")}

\* get_interface_mode()
get_interface_mode(env) == IF env = None THEN "default" ELSE env[1]

\* The click subcommands: cmd is the command line they start from, option the
\* text put before the interface argument, converts whether the argument goes
\* through alias_to_name in alias mode, passthrough whether PortChannel and
\* eth arguments skip that conversion.
Handlers ==
    { [name |-> "arp", cmd |-> "nbrshow -4", option |-> " -if ",
       takes_arg |-> TRUE, converts |-> TRUE, passthrough |-> TRUE],
      [name |-> "ndp", cmd |-> "nbrshow -6", option |-> " -if ",
       takes_arg |-> TRUE, converts |-> FALSE, passthrough |-> FALSE],
      [name |-> "eeprom", cmd |-> "sfpshow eeprom", option |-> " -p ",
       takes_arg |-> TRUE, converts |-> TRUE, passthrough |-> FALSE],
      [name |-> "lpmode", cmd |-> "sudo sfputil show lpmode", option |-> " -p ",
       takes_arg |-> TRUE, converts |-> TRUE, passthrough |-> FALSE],
      [name |-> "status", cmd |-> "intfutil status", option |-> " ",
       takes_arg |-> TRUE, converts |-> TRUE, passthrough |-> FALSE],
      [name |-> "queue counters", cmd |-> "queuestat", option |-> " -p ",
       takes_arg |-> TRUE, converts |-> TRUE, passthrough |-> FALSE],
      [name |-> "neighbors", cmd |-> "sudo lldpctl", option |-> " ",
       takes_arg |-> TRUE, converts |-> TRUE, passthrough |-> FALSE],
      [name |-> "rif", cmd |-> "intfstat", option |-> " -i ",
       takes_arg |-> TRUE, converts |-> FALSE, passthrough |-> FALSE],
      [name |-> "counters", cmd |-> "portstat", option |-> "",
       takes_arg |-> FALSE, converts |-> FALSE, passthrough |-> FALSE],
      [name |-> "pfc counters", cmd |-> "pfcstat", option |-> "",
       takes_arg |-> FALSE, converts |-> FALSE, passthrough |-> FALSE],
      [name |-> "table", cmd |-> "sudo lldpshow", option |-> "",
       takes_arg |-> FALSE, converts |-> FALSE, passthrough |-> FALSE],
      [name |-> "mac", cmd |-> "fdbshow", option |-> " -p ",
       takes_arg |-> TRUE, converts |-> FALSE, passthrough |-> FALSE],
      [name |-> "portchannel", cmd |-> "teamshow", option |-> "",
       takes_arg |-> FALSE, converts |-> FALSE, passthrough |-> FALSE] }

\* no subcommand: run_command, or a conversion, called on its own
NoHandler ==
    [name |-> "", cmd |-> "", option |-> "",
     takes_arg |-> FALSE, converts |-> FALSE, passthrough |-> FALSE]

\* the interface arguments an operator may type
OperatorArgs == {"etp1", "Ethernet0", "PortChannel0001"}

ArgsOf(h) == IF h.takes_arg THEN {None} \cup {Some(a) : a \in OperatorArgs} ELSE {None}

\* the lines a producer may write
ProducerLines ==
    { "Ethernet0   up   up\n", "Ethernet0 and Ethernet0\n", "\n",
      "  1 2\n", "----------  ------\n" }

\* the exit statuses a producer may end with
ReturnCodes == {0, 2}

NoProcess == [launched |-> FALSE, pipe |-> <<>>, written |-> 0,
              closed |-> FALSE, returncode |-> None]

Init ==
    /\ pc = "import"
    /\ environ \in Environs
    /\ config_db \in ConfigDBs
    /\ iface_alias_converter = NoConverter
    /\ handler \in Handlers
    /\ interfacename \in ArgsOf(handler)
    /\ command = ""
    /\ process = NoProcess
    /\ output = ""
    /\ lines_read = <<>>
    /\ stdout = <<>>
    /\ exit_status = None
    /\ exception = ""
    /\ conv_log = <<>>

\* line 169: routing_stack = get_routing_stack(), a helper process whose output
\* is captured, run before the registry is constructed
GetRoutingStack ==
    /\ pc = "import"
    /\ pc' = "construct"
    /\ UNCHANGED <<environ, config_db, iface_alias_converter, handler, interfacename,
                   command, process, output, lines_read, stdout, exit_status,
                   exception, conv_log>>

\* line 204: iface_alias_converter = InterfaceAliasConverter(); the Abort of an
\* empty table is raised at import and ends the interpreter with status 1
Construct ==
    /\ pc = "construct"
    /\ LET r == InterfaceAliasConverter_init(config_db.table, config_db.keys)
       IN  /\ iface_alias_converter' = r.self
           /\ stdout' = stdout \o r.echo
           /\ IF r.kind = "ok"
              THEN pc' = "cli" /\ UNCHANGED <<exit_status, exception>>
              ELSE /\ pc' = "exit"
                   /\ exit_status' = Some(1)
                   /\ exception' = r.kind
    /\ UNCHANGED <<environ, config_db, handler, interfacename, command, process,
                   output, lines_read, conv_log>>

\* eth and PortChannel arguments, which arp does not convert
IsAggregateOrMgmt(arg) == StartsWith(arg, "PortChannel") \/ StartsWith(arg, "eth")

\* whether subcommand h converts its argument arg under the environment env
Converts(env, h, arg) ==
    /\ arg # None
    /\ h.converts
    /\ get_interface_mode(env) = "alias"
    /\ ~(h.passthrough /\ IsAggregateOrMgmt(arg[1]))

\* the body of a subcommand up to its call of run_command: the strict
\* conversion of the argument in alias mode, then the command line
HandlerBody(self, env, h, arg) ==
    IF Converts(env, h, arg)
    THEN LET r == alias_to_name(self, arg)
         IN  [kind |-> r.kind, echo |-> r.echo,
              interfacename |-> IF r.kind = "ok" THEN Some(r.value) ELSE arg,
              command |-> IF r.kind = "ok" THEN h.cmd \o h.option \o r.value ELSE "",
              log |-> <<[fn |-> "alias_to_name", arg |-> arg, kind |-> r.kind,
                         value |-> r.value]>>]
    ELSE [kind |-> "ok", echo |-> <<>>, interfacename |-> arg,
          command |-> IF arg # None THEN h.cmd \o h.option \o arg[1] ELSE h.cmd,
          log |-> <<>>]

\* a click subcommand (arp, eeprom, lpmode, ..., lines 375-1084); an Abort or
\* an uncaught exception ends the invocation with status 1
Subcommand ==
    /\ pc = "cli"
    /\ LET r == HandlerBody(iface_alias_converter, environ, handler, interfacename)
       IN  /\ stdout' = stdout \o r.echo
           /\ conv_log' = conv_log \o r.log
           /\ interfacename' = r.interfacename
           /\ command' = r.command
           /\ IF r.kind = "ok"
              THEN pc' = "run_command" /\ UNCHANGED <<exit_status, exception>>
              ELSE /\ pc' = "exit"
                   /\ exit_status' = Some(1)
                   /\ exception' = r.kind
    /\ UNCHANGED <<environ, config_db, iface_alias_converter, handler, process,
                   output, lines_read>>

\* line 178 without its exception for intfutil commands
UsesAliasMode_every(env, cmd) == get_interface_mode(env) = "alias"

\* line 178: whether run_command hands the command to run_command_in_alias_mode
UsesAliasMode(env, cmd) ==
    get_interface_mode(env) = "alias" /\ ~StartsWith(cmd, "intfutil")

\* run_command up to its loop (lines 172-182), or through line 179 to the Popen
\* of run_command_in_alias_mode (line 246); display_cmd is False
RunCommand ==
    /\ pc = "run_command"
    /\ process' = [NoProcess EXCEPT !.launched = TRUE]
    /\ pc' = IF UsesAliasMode(environ, command) THEN "alias_readline" ELSE "raw_readline"
    /\ UNCHANGED <<environ, config_db, iface_alias_converter, handler, interfacename,
                   command, output, lines_read, stdout, exit_status, exception,
                   conv_log>>

\* the producer writes one line to its standard output
ProducerWrite ==
    /\ pc # "exit"
    /\ process.launched /\ ~process.closed
    /\ process.written < MaxLines
    /\ \E line \in ProducerLines :
           process' = [process EXCEPT !.pipe = Append(@, line), !.written = @ + 1]
    /\ UNCHANGED <<pc, environ, config_db, iface_alias_converter, handler,
                   interfacename, command, output, lines_read, stdout, exit_status,
                   exception, conv_log>>

\* the producer closes its standard output without exiting yet
ProducerClose ==
    /\ pc # "exit"
    /\ process.launched /\ ~process.closed
    /\ process' = [process EXCEPT !.closed = TRUE]
    /\ UNCHANGED <<pc, environ, config_db, iface_alias_converter, handler,
                   interfacename, command, output, lines_read, stdout, exit_status,
                   exception, conv_log>>

\* the producer exits, which closes its standard output
ProducerExit ==
    /\ pc # "exit"
    /\ process.launched /\ process.returncode = None
    /\ \E rc \in ReturnCodes :
           process' = [process EXCEPT !.closed = TRUE, !.returncode = Some(rc)]
    /\ UNCHANGED <<pc, environ, config_db, iface_alias_converter, handler,
                   interfacename, command, output, lines_read, stdout, exit_status,
                   exception, conv_log>>

\* proc.stdout.readline(): the next line of the pipe, or "" at end-of-stream;
\* it blocks while the pipe is empty and open
Readline(next_pc) ==
    /\ process.pipe # <<>> \/ process.closed
    /\ IF process.pipe # <<>>
       THEN /\ output' = Head(process.pipe)
            /\ process' = [process EXCEPT !.pipe = Tail(@)]
            /\ lines_read' = Append(lines_read, Head(process.pipe))
       ELSE /\ output' = ""
            /\ UNCHANGED <<process, lines_read>>
    /\ pc' = next_pc
    /\ UNCHANGED <<environ, config_db, iface_alias_converter, handler, interfacename,
                   command, stdout, exit_status, exception, conv_log>>

\* line 249
AliasReadline == pc = "alias_readline" /\ Readline("alias_body")

\* the iteration when the loop is left as soon as the producer has exited
AliasBody_polling ==
    /\ pc = "alias_body"
    /\ IF process.returncode # None
       THEN pc' = "alias_poll" /\ UNCHANGED <<stdout, exit_status, exception>>
       ELSE IF output # ""
       THEN LET r == TranslateLine(iface_alias_converter, command, output)
            IN  /\ stdout' = stdout \o r.echo
                /\ IF r.kind = "ok"
                   THEN pc' = "alias_readline" /\ UNCHANGED <<exit_status, exception>>
                   ELSE /\ pc' = "exit"
                        /\ exit_status' = Some(1)
                        /\ exception' = r.kind
       ELSE pc' = "alias_readline" /\ UNCHANGED <<stdout, exit_status, exception>>
    /\ UNCHANGED <<environ, config_db, iface_alias_converter, handler, interfacename,
                   command, process, output, lines_read, conv_log>>

\* the iteration when translating a line resets the width of the registry
AliasBody_resetting ==
    /\ pc = "alias_body"
    /\ IF output = "" /\ process.returncode # None
       THEN /\ pc' = "alias_poll"
            /\ UNCHANGED <<stdout, exit_status, exception, iface_alias_converter>>
       ELSE IF output # ""
       THEN LET r == TranslateLine(iface_alias_converter, command, output)
            IN  /\ stdout' = stdout \o r.echo
                /\ iface_alias_converter' =
                       [iface_alias_converter EXCEPT !.alias_max_length = 0]
                /\ IF r.kind = "ok"
                   THEN pc' = "alias_readline" /\ UNCHANGED <<exit_status, exception>>
                   ELSE /\ pc' = "exit"
                        /\ exit_status' = Some(1)
                        /\ exception' = r.kind
       ELSE /\ pc' = "alias_readline"
            /\ UNCHANGED <<stdout, exit_status, exception, iface_alias_converter>>
    /\ UNCHANGED <<environ, config_db, handler, interfacename,
                   command, process, output, lines_read, conv_log>>

\* lines 250-346: the rest of one iteration of the loop of
\* run_command_in_alias_mode; an exception ends the invocation with status 1
AliasBody ==
    /\ pc = "alias_body"
    /\ IF output = "" /\ process.returncode # None
       THEN pc' = "alias_poll" /\ UNCHANGED <<stdout, exit_status, exception>>
       ELSE IF output # ""
       THEN LET r == TranslateLine(iface_alias_converter, command, output)
            IN  /\ stdout' = stdout \o r.echo
                /\ IF r.kind = "ok"
                   THEN pc' = "alias_readline" /\ UNCHANGED <<exit_status, exception>>
                   ELSE /\ pc' = "exit"
                        /\ exit_status' = Some(1)
                        /\ exception' = r.kind
       ELSE pc' = "alias_readline" /\ UNCHANGED <<stdout, exit_status, exception>>
    /\ UNCHANGED <<environ, config_db, iface_alias_converter, handler, interfacename,
                   command, process, output, lines_read, conv_log>>

\* lines 348-350, then line 180 of run_command: sys.exit(rc) or sys.exit(0)
AliasPoll ==
    /\ pc = "alias_poll"
    /\ exit_status' = Some(process.returncode[1])
    /\ pc' = "exit"
    /\ UNCHANGED <<environ, config_db, iface_alias_converter, handler, interfacename,
                   command, process, output, lines_read, stdout, exception, conv_log>>

\* line 185
RawReadline == pc = "raw_readline" /\ Readline("raw_body")

\* the iteration when the loop is left at end-of-stream without the poll
RawBody_eof ==
    /\ pc = "raw_body"
    /\ IF output = ""
       THEN pc' = "raw_poll" /\ UNCHANGED stdout
       ELSE pc' = "raw_readline" /\ stdout' = Append(stdout, RStripNL(output))
    /\ UNCHANGED <<environ, config_db, iface_alias_converter, handler, interfacename,
                   command, process, output, lines_read, exit_status, exception,
                   conv_log>>

\* lines 186-189: the rest of one iteration of the loop of run_command
RawBody ==
    /\ pc = "raw_body"
    /\ IF output = "" /\ process.returncode # None
       THEN pc' = "raw_poll" /\ UNCHANGED stdout
       ELSE IF output # ""
       THEN pc' = "raw_readline" /\ stdout' = Append(stdout, RStripNL(output))
       ELSE pc' = "raw_readline" /\ UNCHANGED stdout
    /\ UNCHANGED <<environ, config_db, iface_alias_converter, handler, interfacename,
                   command, process, output, lines_read, exit_status, exception,
                   conv_log>>

\* lines 191-193: sys.exit(rc) when rc is not 0; otherwise run_command returns,
\* the subcommand returns and the interpreter ends with status 0
RawPoll ==
    /\ pc = "raw_poll"
    /\ exit_status' = Some(process.returncode[1])
    /\ pc' = "exit"
    /\ UNCHANGED <<environ, config_db, iface_alias_converter, handler, interfacename,
                   command, process, output, lines_read, stdout, exception, conv_log>>

Next ==
    \/ GetRoutingStack
    \/ Construct
    \/ Subcommand
    \/ RunCommand
    \/ ProducerWrite
    \/ ProducerClose
    \/ ProducerExit
    \/ AliasReadline
    \/ AliasBody
    \/ AliasPoll
    \/ RawReadline
    \/ RawBody
    \/ RawPoll

Spec == Init /\ [][Next]_vars

(***************************************************************************)
(* SpecLive: the invocation with its progress.  The interpreter runs one   *)
(* sequential program: each of its steps is taken once it can be, and a    *)
(* readline() that has a line or end-of-stream to return returns.  Nothing *)
(* is assumed of the producer, which may write, close and exit or not.     *)
(* The registry is {Ethernet0: etp1}.                                      *)
(***************************************************************************)
InitLive ==
    /\ Init
    /\ DOMAIN config_db.table = {"Ethernet0"}
    /\ config_db.table["Ethernet0"] = WithAlias("etp1")

\* a step of the program itself, as against one of its producer, other than
\* the translation of a line; pc enables at most one of them
ProgramStep ==
    \/ GetRoutingStack \/ Construct \/ Subcommand \/ RunCommand
    \/ AliasReadline \/ AliasPoll
    \/ RawReadline \/ RawBody \/ RawPoll

\* WF_vars(AliasBody) with its ENABLED written out: AliasBody can be taken
\* exactly when pc = "alias_body", and each of its branches changes pc
AliasBodyProgress ==
    []<>(pc # "alias_body") \/ []<><<AliasBody>>_vars

Progress == WF_vars(ProgramStep) /\ AliasBodyProgress

SpecLive == InitLive /\ [][Next]_vars /\ Progress

(***************************************************************************)
(* SpecLine: one iteration of the loop of run_command_in_alias_mode on a   *)
(* line drawn from a generated set.  The invocation starts in alias mode   *)
(* with the registry constructed and the line just read.                   *)
(***************************************************************************)

\* the most pieces a generated line is joined from
MaxPieces == 3

\* one command line for each branch of the rule chain
LineCommands ==
    { "portstat -a", "intfstat", "pfcstat", "sudo sfputil show eeprom",
      "sudo sfputil show lpmode", "sudo lldpshow", "queuestat", "fdbshow",
      "nbrshow -4", "teamshow", "pfcstat -c", "fdbshow -v 1000" }

\* the words the branch of a rule tests for
RuleWords(rule) ==
    CASE rule \in {"portstat", "intfstat"} -> {"IFACE"}
      [] rule = "pfcstat" -> {"Port", "Tx"}
      [] rule \in {"sfputil", "queuestat"} -> {"Port", "PortChannel1"}
      [] rule = "lldpshow" -> {"LocalPort"}
      [] rule = "fdbshow" -> {"Type"}
      [] rule = "nbrshow" -> {"Vlan"}
      [] rule = "scan" -> {"    PortID:"}
      [] OTHER -> {}

\* the columns that precede the generated pieces of a line
Leads(rule) ==
    CASE rule = "fdbshow" -> {<<>>, <<"1", "1000", "00:11:22:33:44:55">>,
                              <<"No.", "Vlan", "MacAddress">>}
      [] rule = "nbrshow" -> {<<>>, <<"10.0.0.1", "00:11:22:33:44:55">>}
      [] OTHER -> {<<>>}

\* a shortest port name of a table
ShortestName(table) ==
    CHOOSE n \in DOMAIN table : \A m \in DOMAIN table : Len(n) <= Len(m)

\* the pieces of a generated line: the port names, one of them with a colon,
\* a word, a dash run, the empty piece (which doubles a separator), the
\* words of the rule and, for the scan, a longer word that starts with a name
Pieces(table, rule) ==
    {"", "x", "---"} \cup DOMAIN table
        \cup {ShortestName(table) \o ":"}
        \cup RuleWords(rule)
        \cup (IF rule = "scan" THEN {ShortestName(table) \o "0"} ELSE {})

PieceSeqs(P) == UNION {[1..n -> P] : n \in 0..MaxPieces}

\* a data row, a divider and a header of a table of interfaces
TableLines ==
    {"Ethernet0   up   up\n", "----------  ------  ------\n", "IFACE    STATE\n"}

\* rows of the MAC table and of the neighbor table with a column whose text
\* contains, inside a longer token, the word their branch looks for
MarkerLines ==
    {"No. PortType x Ethernet0\n", "10.0.0.1 PortVlan Ethernet0\n"}

\* the lines readline() may return for a table and a rule
GenLines(table, rule) ==
    {Join(" ", lead \o ps) \o "\n" : lead \in Leads(rule), ps \in PieceSeqs(Pieces(table, rule))}
        \cup TableLines \cup MarkerLines

InitLine ==
    /\ pc = "alias_body"
    /\ environ = Some("alias")
    /\ config_db \in {c \in ConfigDBs : DOMAIN c.table # {}}
    /\ iface_alias_converter =
           InterfaceAliasConverter_init(config_db.table, config_db.keys).self
    /\ handler = NoHandler
    /\ interfacename = None
    /\ command \in LineCommands
    /\ output \in GenLines(config_db.table, RuleOf(command))
    /\ process = [NoProcess EXCEPT !.launched = TRUE, !.written = 1]
    /\ lines_read = <<output>>
    /\ stdout = <<>>
    /\ exit_status = None
    /\ exception = ""
    /\ conv_log = <<>>

NextLine == AliasBody

SpecLine == InitLine /\ [][NextLine]_vars

(***************************************************************************)
(* SpecConv: the strict conversions applied to an argument, one after the  *)
(* other, against a constructed registry.                                  *)
(***************************************************************************)

\* the most conversions applied in a row
MaxConversions == 2

\* the aliases of a table
AliasesOf(table) ==
    {table[n].alias : n \in {m \in DOMAIN table : "alias" \in DOMAIN table[m]}}

InitConv ==
    /\ pc = "convert"
    /\ environ = Some("alias")
    /\ config_db \in {c \in ConfigDBs : DOMAIN c.table # {}}
    /\ iface_alias_converter =
           InterfaceAliasConverter_init(config_db.table, config_db.keys).self
    /\ handler = NoHandler
    /\ interfacename \in {None} \cup {Some(a) : a \in DOMAIN config_db.table
                                          \cup AliasesOf(config_db.table) \cup {"etp9"}}
    /\ command = ""
    /\ output = ""
    /\ process = NoProcess
    /\ lines_read = <<>>
    /\ stdout = <<>>
    /\ exit_status = None
    /\ exception = ""
    /\ conv_log = <<>>

\* one strict conversion of interfacename; fn names the method, r is its result
Convert(fn, r) ==
    /\ pc = "convert"
    /\ Len(conv_log) < MaxConversions
    /\ conv_log' = Append(conv_log, [fn |-> fn, arg |-> interfacename,
                                     kind |-> r.kind, value |-> r.value])
    /\ stdout' = stdout \o r.echo
    /\ IF r.kind = "ok"
       THEN /\ interfacename' = Some(r.value)
            /\ UNCHANGED <<pc, exit_status, exception>>
       ELSE /\ pc' = "exit"
            /\ exit_status' = Some(1)
            /\ exception' = r.kind
            /\ UNCHANGED interfacename
    /\ UNCHANGED <<environ, config_db, iface_alias_converter, handler, command,
                   process, output, lines_read>>

ConvertNameToAlias ==
    Convert("name_to_alias", name_to_alias(iface_alias_converter, interfacename))

ConvertAliasToName ==
    Convert("alias_to_name", alias_to_name(iface_alias_converter, interfacename))

NextConv == ConvertNameToAlias \/ ConvertAliasToName

SpecConv == InitConv /\ [][NextConv]_vars

(***************************************************************************)
(* Properties.                                                             *)
(***************************************************************************)

\* the invocation has launched its producer under run_command_in_alias_mode
InAliasPump == process.launched /\ UsesAliasMode(environ, command)

\* the rule of the invocation's command
Rule == RuleOf(command)

\* the last element of a non-empty sequence
Last(seq) == seq[Len(seq)]

\* C1: in alias mode the lines written to stdout are at every point, in order,
\* the translations of a prefix of the lines read: one output line per input
\* line, at most one line read and not yet written, none left unwritten at the
\* end.
C1_OrderedTranslation ==
    InAliasPump =>
        /\ Len(stdout) <= Len(lines_read)
        /\ Len(lines_read) - Len(stdout) <= 1
        /\ \A i \in 1..Len(stdout) :
               LET r == TranslateLine(iface_alias_converter, command, lines_read[i])
               IN  r.kind = "ok" /\ r.echo = <<stdout[i]>>
        /\ pc \in {"alias_readline", "alias_poll", "exit"} =>
               Len(stdout) = Len(lines_read)

\* C2: an invocation of run_command whose producer exited with status rc ends
\* with status rc, in default and in alias mode.
C2_ExitStatusIsProducerStatus ==
    (pc = "exit" /\ process.launched /\ process.returncode # None) =>
        exit_status = process.returncode

\* C3: under the whole-line scan rule no line aborts the invocation: every line
\* read is emitted and the "Invalid interface" abort of name_to_alias is never
\* reached.
C3_ScanNeverAborts ==
    (InAliasPump /\ Rule = "scan") =>
        /\ exception # "Abort"
        /\ \A i \in 1..Len(stdout) : ~StartsWith(stdout[i], "Invalid interface")
        /\ pc \in {"alias_readline", "alias_poll", "exit"} =>
               Len(stdout) = Len(lines_read)

\* the output a token-index rule hands to print_output_in_alias_mode has no
\* token at the rule's index
NoTokenAtIndex(raw_output) == Len(Split(raw_output)) <= IndexOf(Rule)

\* C4: under a token-index rule the translation of any line completes without
\* raising and emits exactly one line, and a line with no token at the rule's
\* index is emitted unchanged.
C4_TokenRulesNeverRaise ==
    (InAliasPump /\ Rule \in TokenRules) =>
        /\ exception = ""
        /\ pc \in {"alias_readline", "alias_poll", "exit"} =>
               Len(stdout) = Len(lines_read)
        /\ \A i \in 1..Len(stdout) :
               (i <= Len(lines_read) /\ NoTokenAtIndex(lines_read[i])) =>
                   stdout[i] = RStripNL(lines_read[i])

\* the argument is the alias of no port of the registry
UnknownAlias(arg) ==
    \/ arg = None
    \/ ~\E n \in DOMAIN iface_alias_converter.port_dict :
           /\ "alias" \in DOMAIN iface_alias_converter.port_dict[n]
           /\ iface_alias_converter.port_dict[n].alias = arg[1]

\* C9: a subcommand whose argument the strict conversion does not find aborts
\* with the "Invalid interface" diagnostic, before a producer is launched and
\* before any line is read or written; the conversion returns no value for it.
C9_UnknownArgumentAborts ==
    \A i \in 1..Len(conv_log) :
        (conv_log[i].fn = "alias_to_name" /\ UnknownAlias(conv_log[i].arg)) =>
            /\ conv_log[i].kind = "Abort"
            /\ exception = "Abort"
            /\ pc = "exit"
            /\ stdout = <<"Invalid interface " \o Format(conv_log[i].arg)>>
            /\ ~process.launched
            /\ lines_read = <<>>

\* C10: with an empty PORT table the construction of the registry aborts, and
\* no producer is launched, no line read and no command output written, in any
\* naming mode: a launched producer implies a non-empty registry.
C10_EmptyRegistryAborts ==
    /\ (DOMAIN config_db.table = {}) =>
           /\ ~process.launched
           /\ lines_read = <<>>
           /\ pc \in {"import", "construct", "exit"}
           /\ pc = "exit" => (exception = "Abort" /\ stdout = <<"port_dict is None!">>)
           /\ pc # "exit" => stdout = <<>>
    /\ process.launched => DOMAIN iface_alias_converter.port_dict # {}

\* the construction has aborted on an empty table, here in the default mode
C10_Witness ==
    /\ DOMAIN config_db.table = {}
    /\ environ = None
    /\ pc = "exit"
    /\ exception = "Abort"
    /\ exit_status = Some(1)

\* the argument names a port of the registry that has an alias
PortWithAlias(arg) ==
    /\ arg # None
    /\ arg[1] \in DOMAIN iface_alias_converter.port_dict
    /\ "alias" \in DOMAIN iface_alias_converter.port_dict[arg[1]]

\* C8: for a port x that has an alias, name_to_alias(x) returns, and
\* alias_to_name applied to its result returns x; neither call raises or
\* aborts, whatever the order of the port table.
C8_RoundTrip ==
    \A i \in 1..Len(conv_log) :
        (conv_log[i].fn = "name_to_alias" /\ PortWithAlias(conv_log[i].arg)) =>
            /\ conv_log[i].kind = "ok"
            /\ (i < Len(conv_log) /\ conv_log[i + 1].fn = "alias_to_name") =>
                   /\ conv_log[i + 1].kind = "ok"
                   /\ conv_log[i + 1].value = conv_log[i].arg[1]

\* the names of the registry
Names == DOMAIN iface_alias_converter.port_dict

\* the loop of run_command_in_alias_mode has finished the iteration of the
\* last line read
LineDone == InAliasPump /\ lines_read # <<>> /\ pc \in {"alias_readline", "exit"}

\* ... and has emitted a line for it
LineEmitted == LineDone /\ exception = "" /\ Len(stdout) = Len(lines_read)

\* the result of the translator on the last line read
LastResult == TranslateLine(iface_alias_converter, command, Last(lines_read))

NoCanonicalName(raw_output) == \A n \in Names : ~Contains(raw_output, n)

\* the header labels the branch of a rule pads
HeaderLabels(rule) ==
    CASE rule \in {"portstat", "intfstat"} -> {"IFACE"}
      [] rule = "pfcstat" -> {"Port Tx", "Port Rx"}
      [] rule \in {"sfputil", "queuestat"} -> {"Port"}
      [] rule = "lldpshow" -> {"LocalPort"}
      [] OTHER -> {}

\* no adjustment of the rule applies to the line: it has no leading whitespace
\* to strip, starts with no dash run and no header label, and the fdbshow and
\* nbrshow spacing rewrites do not fire
Unadjusted(rule, raw_output) ==
    /\ rule = "sfputil_eeprom" \/ ~IsSpace(Char(raw_output, 1))
    /\ ~StartsWith(raw_output, "---")
    /\ \A label \in HeaderLabels(rule) : ~StartsWith(raw_output, label)
    /\ rule = "fdbshow" =>
           (~StartsWith(raw_output, "No.") /\ Char(raw_output, 1) \notin Digits)
    /\ rule = "nbrshow" => ~Contains(raw_output, "Vlan")

\* the characters of a line that are not whitespace
NonSpace(str) == Replace(Replace(Replace(str, " ", ""), "\n", ""), "\t", "")

AliasOf(n) == iface_alias_converter.port_dict[n].alias

HasAlias(n) ==
    n \in Names /\ "alias" \in DOMAIN iface_alias_converter.port_dict[n]

\* the names that occur in a line as whole words
WordNames(raw_output) == {n \in Names : FindAll(raw_output, n) # <<>>}

TwoNames(raw_output) == Cardinality(WordNames(raw_output)) >= 2

\* the position of the first whole-word occurrence of a name
FirstPos(raw_output, n) ==
    CHOOSE i \in 1..Len(raw_output) :
        /\ WordMatchAt(raw_output, n, i)
        /\ \A j \in 1..(i - 1) : ~WordMatchAt(raw_output, n, j)

\* the name whose whole-word occurrence comes first in the line
FirstName(raw_output) ==
    CHOOSE n \in WordNames(raw_output) :
        \A m \in WordNames(raw_output) : FirstPos(raw_output, n) <= FirstPos(raw_output, m)

\* the number of places at which a text occurs in a line
TextCount(str, sub) ==
    Cardinality({i \in 1..(Len(str) - Len(sub) + 1) :
                     SubSeq(str, i, i + Len(sub) - 1) = sub})

\* str with the text at positions p .. p + n - 1 replaced by new
Splice(str, p, n, new) ==
    SubSeq(str, 1, p - 1) \o new \o SubSeq(str, p + n, Len(str))

RECURSIVE ReplaceNames(_, _)
\* str with every name of S replaced by its alias
ReplaceNames(str, S) ==
    IF S = {} THEN str
    ELSE LET n == CHOOSE m \in S : TRUE
         IN  ReplaceNames(Replace(str, n, AliasOf(n)), S \ {n})

\* the token a token-index rule looks up in the adjusted line, "" if none
IndexedToken(adjusted) ==
    IF Len(Split(adjusted)) > IndexOf(Rule)
    THEN Replace(Split(adjusted)[IndexOf(Rule) + 1], ":", "")
    ELSE ""

\* every name the line contains occurs in it once, as a whole word, and has
\* an alias; no alias of the registry contains a name; the line is not
\* excluded from the scan
PlainNames(raw_output) ==
    /\ ~StartsWith(raw_output, "    PortID:")
    /\ \A n \in Names :
           Contains(raw_output, n) =>
               /\ TextCount(raw_output, n) = 1
               /\ FindAll(raw_output, n) # <<>>
               /\ HasAlias(n)
    /\ \A m, n \in Names : HasAlias(m) => ~Contains(AliasOf(m), n)

Substituted ==
    /\ LineEmitted
    /\ Rule \in TokenRules
    /\ LastResult.alias_name # ""
    /\ Contains(LastResult.adjusted, LastResult.interface_name)

\* C7: the text a token-index rule inserts for a name is its alias
\* right-justified with spaces to max(len(alias), alias_max_length), never
\* truncated, and the emitted line is the adjusted line with that text in
\* place of the name.
C7_PaddedAlias ==
    Substituted =>
        LET r == LastResult
            alias == AliasOf(r.interface_name)
            width == Max(Len(alias), iface_alias_converter.alias_max_length)
        IN  /\ Len(r.alias_name) = width
            /\ SubSeq(r.alias_name, width - Len(alias) + 1, width) = alias
            /\ \A k \in 1..(width - Len(alias)) : Char(r.alias_name, k) = " "
            /\ Last(stdout) =
                   RStripNL(Splice(r.adjusted, Find(r.adjusted, r.interface_name, 1),
                                   Len(r.interface_name), r.alias_name))
            /\ Len(Last(stdout)) =
                   Len(RStripNL(r.adjusted)) - Len(r.interface_name) + width

\* a token-index rule has inserted an alias shorter than alias_max_length
C7_Witness ==
    /\ Substituted
    /\ Len(AliasOf(LastResult.interface_name)) < iface_alias_converter.alias_max_length
    /\ Len(LastResult.alias_name) = iface_alias_converter.alias_max_length

\* the positions of the loop of run_command, and of run_command_in_alias_mode
RawPump == {"raw_readline", "raw_body", "raw_poll"}

AliasPump == {"alias_readline", "alias_body", "alias_poll"}

\* the naming mode is 'alias' and the command line does not start with intfutil
Translating ==
    /\ environ = Some("alias")
    /\ ~(Len(command) >= 8 /\ SubSeq(command, 1, 8) = "intfutil")

\* C11: outside alias mode (variable unset, 'default' or any other value), and
\* in alias mode for a command line that starts with 'intfutil', run_command
\* itself pumps the producer: every line read is written unchanged, its
\* terminator apart, in order, whatever names it contains, and nothing raises;
\* every other command of alias mode goes through run_command_in_alias_mode.
C11_RawPassthrough ==
    /\ pc \in RawPump => (process.launched /\ ~Translating)
    /\ pc \in AliasPump => (process.launched /\ Translating)
    /\ (process.launched /\ ~Translating) =>
           /\ pc \in RawPump \cup {"exit"}
           /\ exception = ""
           /\ Len(stdout) <= Len(lines_read)
           /\ Len(lines_read) - Len(stdout) <= 1
           /\ \A i \in 1..Len(stdout) : stdout[i] = RStripNL(lines_read[i])
           /\ pc \in {"raw_readline", "raw_poll", "exit"} =>
                  Len(stdout) = Len(lines_read)
           /\ pc = "exit" => exit_status = process.returncode

\* an intfutil command of alias mode has written, unchanged, a line that names
\* a port of the registry
C11_Witness ==
    /\ environ = Some("alias")
    /\ StartsWith(command, "intfutil")
    /\ pc = "exit"
    /\ Len(stdout) = MaxLines
    /\ "Ethernet0" \in DOMAIN iface_alias_converter.port_dict
    /\ stdout[1] = "Ethernet0   up   up"
    /\ lines_read[1] = "Ethernet0   up   up\n"

\* the lengths of the aliases of the ports of the registry that have one
AliasLengths ==
    {Len(iface_alias_converter.port_dict[n].alias) :
         n \in {m \in DOMAIN iface_alias_converter.port_dict :
                    "alias" \in DOMAIN iface_alias_converter.port_dict[m]}}

\* C12: once a non-empty registry is constructed, alias_max_length is the
\* greatest length of an alias of a port that has one, 0 if no port has one,
\* whichever ports lack an alias and whatever the order of the port table.
C12_MaxAliasWidth ==
    DOMAIN iface_alias_converter.port_dict # {} =>
        /\ \A l \in AliasLengths : l <= iface_alias_converter.alias_max_length
        /\ iface_alias_converter.alias_max_length \in AliasLengths \cup {0}
        /\ AliasLengths # {} => iface_alias_converter.alias_max_length \in AliasLengths

\* the translation of the last line read went through a token-index rule
\* without raising
TokenLine == LineDone /\ Rule \in TokenRules /\ LastResult.kind = "ok"

\* the adjusted line with the first textual occurrence of the name replaced
\* by its alias right-justified to alias_max_length
WithPaddedAlias(adjusted, name) ==
    RStripNL(Splice(adjusted, Find(adjusted, name, 1), Len(name),
                    PadAlias(AliasOf(name), iface_alias_converter.alias_max_length)))

\* the registry {Ethernet0: etp1}
OnlyEtp1 ==
    /\ Names = {"Ethernet0"}
    /\ HasAlias("Ethernet0")
    /\ AliasOf("Ethernet0") = "etp1"

DashesOnly(str) == StartsWith(str, "---") /\ Replace(NonSpace(str), "-", "") = ""

\* the line as a token-index rule starts from it: stripped on the left,
\* except under 'sudo sfputil show eeprom'
Stripped(rule, raw_output) ==
    IF rule = "sfputil_eeprom" THEN raw_output ELSE LStrip(raw_output)

\* the divider of the table of interfaces
Divider == "----------  ------  ------"

HeaderAt(str, label) ==
    /\ StartsWith(str, label)
    /\ Len(str) = Len(label) \/ IsSpace(Char(str, Len(label) + 1))

\* C15: under a rule that pads a header label, a line without port names and
\* without a leading dash run is changed only if its first token is the label
\* exactly, and then only that token is, right-justified to alias_max_length:
\* a first token that merely begins with the label, and any later occurrence
\* of the label's text, are left as they are.
C15_HeaderPadding ==
    (TokenLine /\ HeaderLabels(Rule) # {} /\ NoCanonicalName(Last(lines_read))
        /\ ~StartsWith(LStrip(Last(lines_read)), "---")) =>
        LET str == LStrip(Last(lines_read))
            labels == {l \in HeaderLabels(Rule) : HeaderAt(str, l)}
        IN  /\ LineEmitted
            /\ labels = {} => Last(stdout) = RStripNL(str)
            /\ \A l \in labels :
                   Last(stdout) =
                       RStripNL(RJust(l, iface_alias_converter.alias_max_length, " ")
                                \o SubSeq(str, Len(l) + 1, Len(str)))

\* C16: the divider rewrite applies only to lines of dash runs and
\* whitespace: a line that starts with '---' and has other text, no port name
\* among it, is emitted with its tokens and the spacing between them as they
\* were.
C16_DividerOnlyDashes ==
    (TokenLine /\ StartsWith(Stripped(Rule, Last(lines_read)), "---")
        /\ ~DashesOnly(Stripped(Rule, Last(lines_read)))
        /\ NoCanonicalName(Last(lines_read))
        /\ ~Contains(Last(lines_read), "Vlan")) =>
        (LineEmitted /\ Last(stdout) = RStripNL(Stripped(Rule, Last(lines_read))))

\* the line begins with the marker of the lines the scan leaves alone
PortIDLine(str) == Len(str) >= 11 /\ SubSeq(str, 1, 11) = "    PortID:"

\* the scan rule has emitted the last line read, which has no such marker
ScanEmitted == LineEmitted /\ Rule = "scan" /\ ~PortIDLine(Last(lines_read))

\* C17: under the scan rule a token of the line in which no port name occurs
\* as a whole word, such as a longer word that starts with a name, is the
\* same token of the emitted line.
C17_WholeWordsOnly ==
    ScanEmitted =>
        LET word == Split(Last(lines_read))
            emitted == Split(Last(stdout))
        IN  Len(emitted) = Len(word) =>
                \A i \in 1..Len(word) :
                    (\A n \in Names : FindAll(word[i], n) = <<>>) =>
                        emitted[i] = word[i]

RECURSIVE Growth(_)
\* by how much the aliases of the names of S are longer than the names
Growth(S) ==
    IF S = {} THEN 0
    ELSE LET n == CHOOSE m \in S : TRUE
         IN  Len(AliasOf(n)) - Len(n) + Growth(S \ {n})

Reordered(k) == [iface_alias_converter EXCEPT !.keys = k]

\* C19: under the scan rule the outcome for a line is the same in whatever
\* order the port table is iterated, and an alias put in place of a name is
\* not translated again: a line that is one name of a port which has an alias
\* is emitted as that alias.
C19_ScanIsAFunctionOfTheMapping ==
    (LineDone /\ Rule = "scan") =>
        /\ \A k \in KeyOrders(Names) :
               ScanLine(Reordered(k), Last(lines_read)).kind = LastResult.kind
               /\ ScanLine(Reordered(k), Last(lines_read)).echo = LastResult.echo
        /\ \A n \in Names :
               (HasAlias(n) /\ Last(lines_read) = n \o "\n") =>
                   (LineEmitted /\ Last(stdout) = AliasOf(n))

\* the signatures of the rule chain in its order: the text tested, whether
\* the test is an equality, and the branch
Signatures ==
    << [text |-> "portstat", exact |-> FALSE, rule |-> "portstat"],
       [text |-> "intfstat", exact |-> FALSE, rule |-> "intfstat"],
       [text |-> "pfcstat", exact |-> TRUE, rule |-> "pfcstat"],
       [text |-> "sudo sfputil show eeprom", exact |-> FALSE, rule |-> "sfputil_eeprom"],
       [text |-> "sudo sfputil show", exact |-> FALSE, rule |-> "sfputil"],
       [text |-> "sudo lldpshow", exact |-> TRUE, rule |-> "lldpshow"],
       [text |-> "queuestat", exact |-> FALSE, rule |-> "queuestat"],
       [text |-> "fdbshow", exact |-> TRUE, rule |-> "fdbshow"],
       [text |-> "nbrshow", exact |-> FALSE, rule |-> "nbrshow"] >>

Matches(sig, cmd) ==
    IF sig.exact THEN cmd = sig.text
    ELSE Len(cmd) >= Len(sig.text) /\ SubSeq(cmd, 1, Len(sig.text)) = sig.text

\* the branch of the first signature that matches, the fallback if none does
FirstMatch(cmd) ==
    IF \E i \in 1..Len(Signatures) : Matches(Signatures[i], cmd)
    THEN Signatures[CHOOSE i \in 1..Len(Signatures) :
                        /\ Matches(Signatures[i], cmd)
                        /\ \A j \in 1..(i - 1) : ~Matches(Signatures[j], cmd)].rule
    ELSE "scan"

EepromCommand ==
    Len(command) >= 24 /\ SubSeq(command, 1, 24) = "sudo sfputil show eeprom"

\* the first token of a line, its colons removed, "" if the line has none
FirstToken(str) ==
    IF Split(str) = <<>> THEN "" ELSE Replace(Split(str)[1], ":", "")

NamesAsTokens(str) ==
    /\ ~PortIDLine(str)
    /\ \A n \in Names :
           Contains(str, n) =>
               /\ TextCount(str, n) = 1
               /\ HasAlias(n) /\ AliasOf(n) # ""
               /\ \E i \in 1..Len(Split(str)) : Split(str)[i] = n
    /\ \A m, n \in Names : HasAlias(m) => ~Contains(AliasOf(m), n)

AggregateOrMgmtForm(str) ==
    \/ Len(str) >= 11 /\ SubSeq(str, 1, 11) = "PortChannel"
    \/ Len(str) >= 3 /\ SubSeq(str, 1, 3) = "eth"

\* C23: in alias mode an argument that begins with 'PortChannel' or 'eth' is
\* never handed to the strict conversion, by any subcommand that converts
\* its argument: the invocation does not abort on it and the subcommand puts
\* it in its command line unchanged.
C23_AggregatePassthrough ==
    /\ \A i \in 1..Len(conv_log) :
           conv_log[i].arg # None => ~AggregateOrMgmtForm(conv_log[i].arg[1])
    /\ (environ = Some("alias") /\ handler.converts /\ interfacename # None
           /\ AggregateOrMgmtForm(interfacename[1])
           /\ pc \notin {"import", "construct", "cli"}
           /\ DOMAIN config_db.table # {}) =>
           /\ exception = ""
           /\ command = handler.cmd \o handler.option \o interfacename[1]

\* the registry has been constructed
Constructed == pc \notin {"import", "construct"}

\* C24: once constructed the registry does not change: no step of a
\* subcommand, a conversion or either pump modifies the port table, its
\* order or alias_max_length, so at every later point they are those the
\* construction made from the PORT table.
C24_RegistryImmutable ==
    /\ [](Constructed =>
             /\ iface_alias_converter.port_dict = config_db.table
             /\ iface_alias_converter.keys = config_db.keys
             /\ iface_alias_converter.alias_max_length =
                    alias_max_length_loop(config_db.table, config_db.keys, 1, 0))
    /\ [][Constructed => iface_alias_converter' = iface_alias_converter]_vars

\* an invocation has converted its argument and translated two lines, and
\* the registry is the one constructed
C24_Witness ==
    /\ pc = "exit"
    /\ InAliasPump
    /\ conv_log # <<>>
    /\ stdout = <<"etp1   up   up", "etp1   up   up">>
    /\ Rule = "queuestat"
    /\ iface_alias_converter.alias_max_length = 4
    /\ iface_alias_converter.port_dict = config_db.table

\* the producer has exited
Exited == process.launched /\ process.returncode # None

\* C25: once the producer has exited, which closes its standard output, the
\* pump of either mode leaves its loop and the invocation terminates; the
\* loop is left through its break, and an invocation ends without an
\* exception, only when the producer has exited and the pipe is drained:
\* at end-of-stream with the producer still running the pump keeps reading.
C25_PumpTermination ==
    /\ Exited ~> (pc = "exit")
    /\ [](pc \in {"alias_poll", "raw_poll"} => (Exited /\ process.pipe = <<>>))
    /\ []((pc = "exit" /\ process.launched /\ exception = "") =>
             (Exited /\ process.pipe = <<>>))
    /\ [][(pc \in {"alias_body", "raw_body"} /\ output = "" /\ ~Exited) =>
             pc' \in {pc, "alias_readline", "raw_readline"}]_vars

\* the pump has read end-of-stream while the producer, its standard output
\* closed, has not exited
C25_Witness ==
    /\ pc \in {"alias_body", "raw_body"}
    /\ output = ""
    /\ process.closed
    /\ process.returncode = None
    /\ Len(stdout) = MaxLines

\* the invocation has ended through the poll of its pump
ExitedWithStatus == pc = "exit" /\ process.launched /\ exception = ""

\* what the pump of the invocation writes for a line it has read
Written(line) ==
    IF Translating
    THEN TranslateLine(iface_alias_converter, command, line).echo
    ELSE <<RStripNL(line)>>

\* C26: the pump reads the exit status only after it has read end-of-stream
\* from a drained pipe of a producer that has exited; no line the producer
\* wrote is ever lost between the pipe and the pump; and when the invocation
\* ends with the producer's status, every line the producer wrote has been
\* read and written, in order, translated in alias mode.
C26_ExitAfterDrain ==
    /\ pc \in {"alias_poll", "raw_poll"} =>
           (output = "" /\ Exited /\ process.pipe = <<>>)
    /\ process.launched =>
           Len(lines_read) + Len(process.pipe) = process.written
    /\ ExitedWithStatus =>
           /\ Exited
           /\ exit_status = Some(process.returncode[1])
           /\ process.pipe = <<>>
           /\ Len(lines_read) = process.written
           /\ Len(stdout) = process.written
           /\ \A i \in 1..Len(lines_read) : Written(lines_read[i]) = <<stdout[i]>>

\* an invocation in alias mode has ended with the producer's non-zero status,
\* every line written and a name among them translated
C26_Witness ==
    /\ ExitedWithStatus /\ Translating
    /\ exit_status = Some(2)
    /\ process.written = MaxLines
    /\ \E i \in 1..Len(stdout) : stdout[i] # lines_read[i] /\ Contains(stdout[i], "etp1")

\* the widths the registries of the port tables have
Widths ==
    {0} \cup {Len(t[n].alias) : <<t, n>> \in
                 {<<u, m>> \in PortTables \X Names :
                      m \in DOMAIN u /\ "alias" \in DOMAIN u[m]}}

\* the registry with the same mapping and another alias_max_length
WithWidth(self, w) == [self EXCEPT !.alias_max_length = w]

\* a line without its spaces and dashes
Unpadded(str) == Replace(NonSpace(str), "-", "")

\* C27: under every rule the translation of a line by a registry with the
\* same mapping and another alias_max_length ends the same way and emits the
\* same line, spaces and dashes apart: the same name is replaced by the same
\* alias, and only padding differs.
C27_WidthAffectsPaddingOnly ==
    LineDone =>
        \A w \in Widths :
            LET other == TranslateLine(WithWidth(iface_alias_converter, w), command,
                                       Last(lines_read))
            IN  /\ other.kind = LastResult.kind
                /\ Len(other.echo) = Len(LastResult.echo)
                /\ \A i \in 1..Len(other.echo) :
                       Unpadded(other.echo[i]) = Unpadded(LastResult.echo[i])

\* C28: when a token-index rule substitutes a name, the tokens of the emitted
\* line are those of the adjusted line except at the rule's index, where the
\* alias stands for the name, followed by the colon the token ended with.
C28_OnlyIndexedTokenAltered ==
    Substituted =>
        LET adjusted == Split(LastResult.adjusted)
            emitted == Split(Last(stdout))
            k == IndexOf(Rule) + 1
            name == LastResult.interface_name
        IN  /\ Len(emitted) = Len(adjusted)
            /\ \A j \in DOMAIN adjusted \ {k} : emitted[j] = adjusted[j]
            /\ adjusted[k] = name => emitted[k] = AliasOf(name)
            /\ adjusted[k] = name \o ":" => emitted[k] = AliasOf(name) \o ":"

\* C29: under the fdbshow and nbrshow rules the line handed to the token
\* substitution has the tokens of the raw line, in the same order: the
\* adjustments of these rules insert whitespace between tokens only.
C29_AdjustmentsKeepTokens ==
    (LineDone /\ Rule \in {"fdbshow", "nbrshow"} /\ LastResult.kind = "ok"
        /\ ~StartsWith(LStrip(Last(lines_read)), "---")) =>
        Split(LastResult.adjusted) = Split(Last(lines_read))

\* the line names, where its rule looks for a name, a port of the registry
\* whose record has no alias
NamesPortWithoutAlias(raw_output) ==
    \E n \in Names :
        /\ ~HasAlias(n)
        /\ IF Rule \in TokenRules
           THEN IndexedToken(Stripped(Rule, raw_output)) = n
           ELSE FindAll(raw_output, n) # <<>>

\* C30: under every rule a line that names a port whose record has no alias
\* is translated without an exception and emitted, unchanged when no
\* adjustment of the rule applies to it, and the pump goes on to the next
\* line.
C30_MissingAliasTolerated ==
    (LineDone /\ NamesPortWithoutAlias(Last(lines_read))) =>
        /\ exception = ""
        /\ pc = "alias_readline"
        /\ LineEmitted
        /\ Unadjusted(Rule, Last(lines_read)) =>
               Last(stdout) = RStripNL(Last(lines_read))

====
